---------------------------- MODULE Spec2Model ----------------------------
(***************************************************************************)
(* tauri-plugin-biometry: the per-platform Biometry component (status,     *)
(* authenticate, has_data, get_data, set_data, remove_data) over the macOS *)
(* LocalAuthentication context and keychain, the Windows consent verifier  *)
(* and the unsupported-desktop stub.                                       *)
(***************************************************************************)
EXTENDS Integers, Sequences, FiniteSets, TLC

(***************************************************************************)
(* Bounds of the model.                                                    *)
(***************************************************************************)
\* longest secret string (in Unicode scalar values) a caller passes
MaxLen == 1
\* number of caller threads of the command pool
NumThreads == 2
\* dialog-focus helper threads alive at once
MaxHelpers == 1

Threads == 1..NumThreads
\* keychain service namespaces (DataOptions.domain)
Domains == {"d1", "d2"}
\* account identifiers (DataOptions.name)
Names == {"n1"}
\* a VaultKey is <<domain, name>>
Keys == Domains \X Names
\* Unicode scalar values of 1 and 3 UTF-8 bytes: 'A' and U+20AC
Chars == {65, 8364}

\* Rust Strings: sequences of scalar values, of length at most n
RECURSIVE StringsUpTo(_)
StringsUpTo(n) ==
    IF n = 0 THEN {<< >>}
    ELSE LET shorter == StringsUpTo(n - 1)
         IN  shorter \cup {Append(s, c) : s \in shorter, c \in Chars}

Values == StringsUpTo(MaxLen)

\* Option<T>
None == << >>
Some(x) == <<x>>

(***************************************************************************)
(* String <-> byte conversions of set_data and get_data.                   *)
(***************************************************************************)
\* UTF-8 encoding of one scalar value
EncodeChar(c) ==
    IF c < 128 THEN <<c>>
    ELSE IF c < 2048 THEN <<192 + (c \div 64), 128 + (c % 64)>>
    ELSE IF c < 65536
         THEN <<224 + (c \div 4096), 128 + ((c \div 64) % 64), 128 + (c % 64)>>
    ELSE <<240 + (c \div 262144), 128 + ((c \div 4096) % 64),
           128 + ((c \div 64) % 64), 128 + (c % 64)>>

\* a buggy encoder that narrows each scalar value to one byte
AsBytesNarrowing(s) == [i \in 1..Len(s) |-> s[i] % 256]

\* str::as_bytes: the UTF-8 bytes of a String
RECURSIVE AsBytes(_)
AsBytes(s) ==
    IF s = << >> THEN << >> ELSE EncodeChar(Head(s)) \o AsBytes(Tail(s))

\* number of continuation bytes a lead byte announces; -1: not a lead byte
Continuations(b) ==
    IF b < 128 THEN 0
    ELSE IF b >= 194 /\ b <= 223 THEN 1
    ELSE IF b >= 224 /\ b <= 239 THEN 2
    ELSE IF b >= 240 /\ b <= 244 THEN 3
    ELSE -1

\* the range the first continuation byte must lie in, after lead byte b
SecondLow(b) == IF b = 224 THEN 160 ELSE IF b = 240 THEN 144 ELSE 128
SecondHigh(b) == IF b = 237 THEN 159 ELSE IF b = 244 THEN 143 ELSE 191

\* how many continuation bytes after position i are well formed (at most n)
RECURSIVE GoodContinuations(_, _, _, _)
GoodContinuations(bs, i, j, n) ==
    IF j > n \/ i + j > Len(bs) THEN j - 1
    ELSE LET b  == bs[i + j]
             lo == IF j = 1 THEN SecondLow(bs[i]) ELSE 128
             hi == IF j = 1 THEN SecondHigh(bs[i]) ELSE 191
         IN  IF b >= lo /\ b <= hi
             THEN GoodContinuations(bs, i, j + 1, n)
             ELSE j - 1

\* the scalar value of a well-formed sequence of 1 + n bytes at position i
DecodeAt(bs, i, n) ==
    IF n = 0 THEN bs[i]
    ELSE IF n = 1 THEN (bs[i] - 192) * 64 + (bs[i + 1] - 128)
    ELSE IF n = 2
         THEN (bs[i] - 224) * 4096 + (bs[i + 1] - 128) * 64 + (bs[i + 2] - 128)
    ELSE (bs[i] - 240) * 262144 + (bs[i + 1] - 128) * 4096
         + (bs[i + 2] - 128) * 64 + (bs[i + 3] - 128)

\* U+FFFD REPLACEMENT CHARACTER
Replacement == 65533

\* String::from_utf8_lossy: decode, one U+FFFD per maximal ill-formed part
RECURSIVE FromUtf8LossyAt(_, _)
FromUtf8LossyAt(bs, i) ==
    IF i > Len(bs) THEN << >>
    ELSE LET n == Continuations(bs[i])
         IN  IF n < 0 THEN <<Replacement>> \o FromUtf8LossyAt(bs, i + 1)
             ELSE LET g == GoodContinuations(bs, i, 1, n)
                  IN  IF g = n
                      THEN <<DecodeAt(bs, i, n)>> \o FromUtf8LossyAt(bs, i + n + 1)
                      ELSE <<Replacement>> \o FromUtf8LossyAt(bs, i + g + 1)

FromUtf8Lossy(bs) == FromUtf8LossyAt(bs, 1)

(***************************************************************************)
(* Results crossing the component boundary (crate::Result<T>).             *)
(***************************************************************************)
\* Ok(value)
Ok(v) == [kind |-> "Ok", code |-> None, val |-> v]
\* Err(Error::PluginInvoke(InvokeRejected(ErrorResponse { code: Some(c), .. })))
Rejected(c) == [kind |-> "InvokeRejected", code |-> Some(c), val |-> None]
\* Err(Error::from(std::io::Error::other(..))): no ErrorResponse, no code
IoError == [kind |-> "Io", code |-> None, val |-> None]
\* no call has returned yet
NoRet == [kind |-> "none", code |-> None, val |-> None]

IsErr(r) == r.kind \in {"InvokeRejected", "Io"}

(***************************************************************************)
(* The OS keychain (Security framework), as the vault adapter uses it.     *)
(* An item is a generic password keyed by (service, account).              *)
(***************************************************************************)
\* what the native store can answer besides what its contents dictate:
\*   normal    the answer follows from the contents, the user is asked
\*   unlocked  the item's access control is already satisfied, no prompt
\*   noUI      no interaction is possible in this session
\*   other     a hard failure with that OSStatus
HardFailures == {"errSecAuthFailed"}
Conditions == {"normal", "unlocked", "noUI"} \cup HardFailures
\* the conditions that matter to a call that never asks the user
WriteConditions == {"normal"} \cup HardFailures

\* the items a query or attribute dictionary addresses: class, account, service
Matches(st, q) ==
    {it \in st : /\ q.kSecClass = "kSecClassGenericPassword"
                 /\ it.acct = q.kSecAttrAccount
                 /\ it.svc = q.kSecAttrService}

UsesUIFail(q) ==
    /\ "kSecUseAuthenticationUI" \in DOMAIN q
    /\ q.kSecUseAuthenticationUI = "kSecUseAuthenticationUIFail"

\* SecItemCopyMatching up to the point where it returns or asks the user:
\* an OSStatus, or "PROMPT" when the authentication UI is put up
CopyMatchingStart(st, q, cond) ==
    IF cond \in HardFailures THEN cond
    ELSE IF Matches(st, q) = {} THEN "errSecItemNotFound"
    ELSE IF \A it \in Matches(st, q) : it.ac = "none" THEN "errSecSuccess"
    ELSE IF cond = "unlocked" THEN "errSecSuccess"
    ELSE IF UsesUIFail(q) \/ cond = "noUI" THEN "errSecInteractionNotAllowed"
    ELSE "PROMPT"

\* the payload SecItemCopyMatching hands back on success
CopyMatchingData(st, q) == (CHOOSE it \in Matches(st, q) : TRUE).data

\* SecItemAdd: <<OSStatus, store afterwards>>
SecItemAdd(st, attrs, cond) ==
    IF cond \in HardFailures THEN <<cond, st>>
    ELSE IF Matches(st, attrs) # {} THEN <<"errSecDuplicateItem", st>>
    ELSE <<"errSecSuccess",
           st \cup {[svc    |-> attrs.kSecAttrService,
                     acct   |-> attrs.kSecAttrAccount,
                     data   |-> attrs.kSecValueData,
                     ac     |-> attrs.kSecAttrAccessControl,
                     access |-> attrs.kSecAttrAccessible]}>>

\* SecItemUpdate: <<OSStatus, store afterwards>>
SecItemUpdate(st, q, upd, cond) ==
    IF cond \in HardFailures THEN <<cond, st>>
    ELSE IF Matches(st, q) = {} THEN <<"errSecItemNotFound", st>>
    ELSE <<"errSecSuccess",
           (st \ Matches(st, q)) \cup
             {[svc    |-> it.svc,
               acct   |-> it.acct,
               data   |-> upd.kSecValueData,
               ac     |-> upd.kSecAttrAccessControl,
               access |-> upd.kSecAttrAccessible] : it \in Matches(st, q)}>>

\* SecItemDelete: <<OSStatus, store afterwards>>
SecItemDelete(st, q, cond) ==
    IF cond \in HardFailures THEN <<cond, st>>
    ELSE IF Matches(st, q) = {} THEN <<"errSecItemNotFound", st>>
    ELSE <<"errSecSuccess", st \ Matches(st, q)>>

(***************************************************************************)
(* The dictionaries the macOS vault adapter builds.                        *)
(***************************************************************************)
\* a has_data query that leaves the interaction mode out
HasDataQueryPrompting(k) ==
    [kSecClass       |-> "kSecClassGenericPassword",
     kSecMatchLimit  |-> "kSecMatchLimitOne",
     kSecAttrAccount |-> k[2],
     kSecAttrService |-> k[1]]

HasDataQuery(k) ==
    [kSecClass               |-> "kSecClassGenericPassword",
     kSecMatchLimit          |-> "kSecMatchLimitOne",
     kSecUseAuthenticationUI |-> "kSecUseAuthenticationUIFail",
     kSecAttrAccount         |-> k[2],
     kSecAttrService         |-> k[1]]

GetDataQuery(k, reason) ==
    [kSecClass              |-> "kSecClassGenericPassword",
     kSecAttrAccount        |-> k[2],
     kSecAttrService        |-> k[1],
     kSecReturnData         |-> TRUE,
     kSecMatchLimit         |-> "kSecMatchLimitOne",
     kSecUseOperationPrompt |-> reason]

\* an insert that leaves the access control out
AddDictUngated(k, data) ==
    [kSecClass             |-> "kSecClassGenericPassword",
     kSecAttrAccount       |-> k[2],
     kSecAttrService       |-> k[1],
     kSecValueData         |-> AsBytes(data),
     kSecAttrAccessControl |-> "none",
     kSecAttrAccessible    |-> "kSecAttrAccessibleWhenUnlockedThisDeviceOnly"]

AddDict(k, data) ==
    [kSecClass             |-> "kSecClassGenericPassword",
     kSecAttrAccount       |-> k[2],
     kSecAttrService       |-> k[1],
     kSecValueData         |-> AsBytes(data),
     kSecAttrAccessControl |-> "UserPresence",
     kSecAttrAccessible    |-> "kSecAttrAccessibleWhenUnlockedThisDeviceOnly"]

\* class + account + service: the query of set_data's update and of remove_data
ItemQuery(k) ==
    [kSecClass       |-> "kSecClassGenericPassword",
     kSecAttrAccount |-> k[2],
     kSecAttrService |-> k[1]]

UpdateDict(data) ==
    [kSecValueData         |-> AsBytes(data),
     kSecAttrAccessControl |-> "UserPresence",
     kSecAttrAccessible    |-> "kSecAttrAccessibleWhenUnlockedThisDeviceOnly"]

(***************************************************************************)
(* State.                                                                  *)
(***************************************************************************)
VARIABLES
    variant,    \* the platform variant linked into this binary (lib.rs cfg)
    store,      \* the OS keychain: a set of generic-password items
    pc,         \* per caller thread: where its current call stands
    call,       \* per caller thread: the current (or last) vault call
    ret,        \* per caller thread: what its last call returned
    absVault,   \* per VaultKey: what the completed calls say the vault holds
    auth,       \* per caller thread: the current (or last) authenticate call
    helpers     \* the live dialog-focus helper threads (Windows)

vars == <<variant, store, pc, call, ret, absVault, auth, helpers>>

Variants == {"macos", "windows", "desktop"}

NoKey == <<"", "">>
\* the abstract vault of one key, as the completed calls leave it: absent
\* (cycled: after a remove_data that deleted an entry), or present with the
\* value of the last successful set_data
Absent == [st |-> "absent", v |-> << >>, cycled |-> FALSE]
Removed == [st |-> "absent", v |-> << >>, cycled |-> TRUE]
Present(v) == [st |-> "present", v |-> v, cycled |-> FALSE]

\* a vault call record: the arguments, the vault's abstract content for the
\* key when the call began, whether every native object the call needs could
\* be built, and what the native store did during the call
NoCall ==
    [op |-> "none", key |-> NoKey, data |-> << >>, pre |-> Absent,
     built |-> TRUE, status |-> "none", out |-> None, prompted |-> FALSE]

NewCall(op, k, data) ==
    [op |-> op, key |-> k, data |-> data, pre |-> absVault[k],
     built |-> TRUE, status |-> "none", out |-> None, prompted |-> FALSE]

\* an authenticate call record: the option, what the availability check
\* said, the policy chosen, whether the native verification primitive was
\* invoked, what it reported, by what means the user was verified (biometry,
\* or the device credential), and the result channel of the call (the queued
\* values, the live Senders, and every value sent so far)
NoAuth ==
    [allow |-> None, avail |-> "n/a", policy |-> "none", invoked |-> FALSE,
     outcome |-> "none", means |-> "none", block |-> "none", chan |-> << >>,
     senders |-> 0, written |-> << >>]

KeyOf(it) == <<it.svc, it.acct>>

\* a helper thread slot: where the thread stands (none: never used, sleep,
\* try, done), the attempts it has made, whether its last attempt found the
\* dialog, the sleep it is in (ms), and the caller that spawned it together
\* with whether that caller's request is still outstanding
NoHelper ==
    [phase |-> "none", tried |-> 0, found |-> FALSE, wait |-> 0,
     owner |-> 0, outstanding |-> FALSE]

Init ==
    /\ variant \in Variants
    /\ store = {}
    /\ pc = [t \in Threads |-> "idle"]
    /\ call = [t \in Threads |-> NoCall]
    /\ ret = [t \in Threads |-> NoRet]
    /\ absVault = [k \in Keys |-> Absent]
    /\ auth = [t \in Threads |-> NoAuth]
    /\ helpers = [i \in 1..MaxHelpers |-> NoHelper]

(***************************************************************************)
(* macOS: the outcome mappings of the vault adapter.                       *)
(***************************************************************************)
\* a mapping that takes "present but needs interaction" for a failure
HasDataResultStrict(status) ==
    IF status = "errSecSuccess" THEN Ok(TRUE)
    ELSE IF status = "errSecItemNotFound" THEN Ok(FALSE)
    ELSE Rejected("keychainError")

\* a mapping that takes every failure for "no entry"
HasDataResultLenient(status) ==
    IF status = "errSecSuccess" \/ status = "errSecInteractionNotAllowed"
    THEN Ok(TRUE)
    ELSE Ok(FALSE)

HasDataResult(status) ==
    IF status = "errSecSuccess" \/ status = "errSecInteractionNotAllowed"
    THEN Ok(TRUE)
    ELSE IF status = "errSecItemNotFound" THEN Ok(FALSE)
    ELSE Rejected("keychainError")

\* a mapping that knows found and not found only
GetDataResultCoarse(k, status, out) ==
    IF status = "errSecSuccess"
    THEN IF out # None
         THEN Ok([domain |-> k[1], name |-> k[2], data |-> FromUtf8Lossy(out[1])])
         ELSE Rejected("dataError")
    ELSE IF status = "errSecItemNotFound" THEN Rejected("itemNotFound")
    ELSE Rejected("keychainError")

GetDataResult(k, status, out) ==
    IF status = "errSecSuccess"
    THEN IF out # None
         THEN Ok([domain |-> k[1], name |-> k[2], data |-> FromUtf8Lossy(out[1])])
         ELSE Rejected("dataError")
    ELSE IF status = "errSecItemNotFound" THEN Rejected("itemNotFound")
    ELSE IF status = "errSecUserCanceled" THEN Rejected("userCancel")
    ELSE IF status = "errSecInteractionNotAllowed"
         THEN Rejected("authenticationRequired")
    ELSE Rejected("keychainError")

SetDataResult(status) ==
    IF status = "errSecSuccess" THEN Ok(None) ELSE Rejected("keychainError")

\* a mapping that reports a missing item as a failure
RemoveDataResultStrict(status) ==
    IF status = "errSecSuccess" THEN Ok(None) ELSE Rejected("keychainError")

RemoveDataResult(status) ==
    IF status = "errSecSuccess" \/ status = "errSecItemNotFound"
    THEN Ok(None)
    ELSE Rejected("keychainError")

\* what the completed calls say the vault holds for the call's key: a failed
\* call counts for nothing
AbsAfter(c, r) ==
    IF r.kind # "Ok" THEN c.pre
    ELSE IF c.op = "set_data" THEN Present(c.data)
    ELSE IF c.op = "remove_data"
    THEN IF c.pre.st = "present" THEN Removed ELSE c.pre
    ELSE c.pre

\* the call of thread t returns r
Return(t, c, r) ==
    /\ pc' = [pc EXCEPT ![t] = "idle"]
    /\ call' = [call EXCEPT ![t] = c]
    /\ ret' = [ret EXCEPT ![t] = r]
    /\ absVault' = IF c.key \in Keys
                   THEN [absVault EXCEPT ![c.key] = AbsAfter(c, r)]
                   ELSE absVault

\* the call of thread t goes on at place p, nothing returned yet
Goto(t, c, p) ==
    /\ pc' = [pc EXCEPT ![t] = p]
    /\ call' = [call EXCEPT ![t] = c]
    /\ ret' = [ret EXCEPT ![t] = NoRet]
    /\ UNCHANGED absVault

(***************************************************************************)
(* macOS: has_data and get_data.                                           *)
(***************************************************************************)
\* SecItemCopyMatching is entered with query q; it returns at once or
\* puts up the authentication UI and waits for the user
CopyMatchingEnter(t, c, q, cond, payload) ==
    LET s == CopyMatchingStart(store, q, cond)
        o == IF s = "errSecSuccess" /\ payload /\ "kSecReturnData" \in DOMAIN q
             THEN Some(CopyMatchingData(store, q)) ELSE None
        c2 == [c EXCEPT !.status = s, !.out = o,
                        !.prompted = (s = "PROMPT")]
    IN  Goto(t, c2, IF s = "PROMPT" THEN "prompt" ELSE "copied")

HasDataBegin(t) ==
    /\ variant = "macos" /\ pc[t] = "idle"
    /\ \E k \in Keys, dictOk \in BOOLEAN, cond \in Conditions :
         IF ~dictOk
         THEN /\ cond = "normal"
              /\ Return(t, [NewCall("has_data", k, << >>) EXCEPT !.built = FALSE],
                     Rejected("internalError"))
         ELSE CopyMatchingEnter(t, NewCall("has_data", k, << >>),
                                HasDataQuery(k), cond, FALSE)
    /\ auth' = [auth EXCEPT ![t] = NoAuth]
    /\ UNCHANGED <<variant, store, helpers>>

GetDataBegin(t) ==
    /\ variant = "macos" /\ pc[t] = "idle"
    /\ \E k \in Keys, dictOk \in BOOLEAN, cond \in Conditions, payload \in BOOLEAN :
         IF ~dictOk
         THEN /\ cond = "normal" /\ payload
              /\ Return(t, [NewCall("get_data", k, << >>) EXCEPT !.built = FALSE],
                     Rejected("internalError"))
         ELSE CopyMatchingEnter(t, NewCall("get_data", k, << >>),
                                GetDataQuery(k, "reason"), cond, payload)
    /\ auth' = [auth EXCEPT ![t] = NoAuth]
    /\ UNCHANGED <<variant, store, helpers>>

\* the user answers the authentication UI of thread t's SecItemCopyMatching
UserRespond(t) ==
    /\ pc[t] = "prompt"
    /\ \E answer \in {"pass", "passNull", "cancel"} :
         LET q == IF call[t].op = "get_data"
                  THEN GetDataQuery(call[t].key, "reason")
                  ELSE HasDataQuery(call[t].key)
             gone == Matches(store, q) = {}
             s == IF gone THEN "errSecItemNotFound"
                  ELSE IF answer = "cancel" THEN "errSecUserCanceled"
                  ELSE "errSecSuccess"
             o == IF s = "errSecSuccess" /\ answer = "pass"
                     /\ "kSecReturnData" \in DOMAIN q
                  THEN Some(CopyMatchingData(store, q)) ELSE None
         IN  Goto(t, [call[t] EXCEPT !.status = s, !.out = o], "copied")
    /\ UNCHANGED <<variant, store, auth, helpers>>

HasDataEnd(t) ==
    /\ pc[t] = "copied" /\ call[t].op = "has_data"
    /\ Return(t, call[t], HasDataResult(call[t].status))
    /\ UNCHANGED <<variant, store, auth, helpers>>

GetDataEnd(t) ==
    /\ pc[t] = "copied" /\ call[t].op = "get_data"
    /\ Return(t, call[t],
              GetDataResult(call[t].key, call[t].status, call[t].out))
    /\ UNCHANGED <<variant, store, auth, helpers>>

(***************************************************************************)
(* macOS: set_data and remove_data.                                        *)
(***************************************************************************)
\* a set_data that only inserts: a duplicate is a failure like any other
SetDataAddInsertOnly(t) ==
    /\ variant = "macos" /\ pc[t] = "idle"
    /\ \E k \in Keys, v \in Values, built \in BOOLEAN, cond \in WriteConditions :
         LET c == NewCall("set_data", k, v)
             r == SecItemAdd(store, AddDict(k, v), cond)
             c2 == [c EXCEPT !.status = r[1]]
         IN  IF ~built
             THEN /\ cond = "normal"
                  /\ store' = store
                  /\ Return(t, [c EXCEPT !.built = FALSE], Rejected("internalError"))
             ELSE /\ store' = r[2]
                  /\ Return(t, c2, SetDataResult(r[1]))
    /\ auth' = [auth EXCEPT ![t] = NoAuth]
    /\ UNCHANGED <<variant, helpers>>

\* set_data up to and including SecItemAdd
SetDataAdd(t) ==
    /\ variant = "macos" /\ pc[t] = "idle"
    /\ \E k \in Keys, v \in Values, built \in BOOLEAN, cond \in WriteConditions :
         LET c == NewCall("set_data", k, v)
             r == SecItemAdd(store, AddDict(k, v), cond)
             c2 == [c EXCEPT !.status = r[1]]
         IN  IF ~built
             THEN /\ cond = "normal"
                  /\ store' = store
                  /\ Return(t, [c EXCEPT !.built = FALSE], Rejected("internalError"))
             ELSE /\ store' = r[2]
                  /\ IF r[1] = "errSecDuplicateItem"
                     THEN Goto(t, c2, "set_update")
                     ELSE Return(t, c2, SetDataResult(r[1]))
    /\ auth' = [auth EXCEPT ![t] = NoAuth]
    /\ UNCHANGED <<variant, helpers>>

\* set_data after errSecDuplicateItem: SecItemUpdate of the existing item
SetDataUpdate(t) ==
    /\ pc[t] = "set_update"
    /\ \E built \in BOOLEAN, cond \in WriteConditions :
         LET c == call[t]
             r == SecItemUpdate(store, ItemQuery(c.key), UpdateDict(c.data), cond)
             c2 == [c EXCEPT !.status = r[1]]
         IN  IF ~built
             THEN /\ cond = "normal"
                  /\ store' = store
                  /\ Return(t, [c EXCEPT !.built = FALSE], Rejected("internalError"))
             ELSE /\ store' = r[2]
                  /\ Return(t, c2, SetDataResult(r[1]))
    /\ UNCHANGED <<variant, auth, helpers>>

RemoveData(t) ==
    /\ variant = "macos" /\ pc[t] = "idle"
    /\ \E k \in Keys, dictOk \in BOOLEAN, cond \in WriteConditions :
         LET c == NewCall("remove_data", k, << >>)
             r == SecItemDelete(store, ItemQuery(k), cond)
             c2 == [c EXCEPT !.status = r[1]]
         IN  IF ~dictOk
             THEN /\ cond = "normal"
                  /\ store' = store
                  /\ Return(t, [c EXCEPT !.built = FALSE], Rejected("internalError"))
             ELSE /\ store' = r[2]
                  /\ Return(t, c2, RemoveDataResult(r[1]))
    /\ auth' = [auth EXCEPT ![t] = NoAuth]
    /\ UNCHANGED <<variant, helpers>>

(***************************************************************************)
(* macOS: LocalAuthentication, status and authenticate.                    *)
(***************************************************************************)
\* the LAError codes the mapping names, and one it does not name
MappedLAErrors ==
    {"AppCancel", "AuthenticationFailed", "InvalidContext", "NotInteractive",
     "PasscodeNotSet", "SystemCancel", "UserCancel", "UserFallback",
     "BiometryLockout", "BiometryNotAvailable", "BiometryNotEnrolled"}
LAErrors == MappedLAErrors \cup {"BiometryNotPaired"}

\* a mapping that lost its UserCancel arm
LaErrorToStringNoCancel(error) ==
    IF error = "AppCancel" THEN "appCancel"
    ELSE IF error = "AuthenticationFailed" THEN "authenticationFailed"
    ELSE IF error = "BiometryNotAvailable" THEN "biometryNotAvailable"
    ELSE IF error = "BiometryNotEnrolled" THEN "biometryNotEnrolled"
    ELSE "unknown"

la_error_to_string(error) ==
    IF error = "AppCancel" THEN "appCancel"
    ELSE IF error = "AuthenticationFailed" THEN "authenticationFailed"
    ELSE IF error = "InvalidContext" THEN "invalidContext"
    ELSE IF error = "NotInteractive" THEN "notInteractive"
    ELSE IF error = "PasscodeNotSet" THEN "passcodeNotSet"
    ELSE IF error = "SystemCancel" THEN "systemCancel"
    ELSE IF error = "UserCancel" THEN "userCancel"
    ELSE IF error = "UserFallback" THEN "userFallback"
    ELSE IF error = "BiometryLockout" THEN "biometryLockout"
    ELSE IF error = "BiometryNotAvailable" THEN "biometryNotAvailable"
    ELSE IF error = "BiometryNotEnrolled" THEN "biometryNotEnrolled"
    ELSE "unknown"

\* canEvaluatePolicy(DeviceOwnerAuthenticationWithBiometrics): "ok" or an error
CanEvaluateOutcomes ==
    {"ok", "PasscodeNotSet", "BiometryNotAvailable", "BiometryNotEnrolled",
     "BiometryLockout", "BiometryNotPaired"}

\* LAContext.biometryType, with one value the mapping does not name
LABiometryTypes == {"None", "TouchID", "FaceID", "OpticID"}

\* a mapping that takes the two modalities for one another
MapBiometryTypeSwapped(bt) ==
    IF bt = "TouchID" THEN "FaceID"
    ELSE IF bt = "FaceID" THEN "TouchID"
    ELSE "None"

MapBiometryType(bt) ==
    IF bt = "None" THEN "None"
    ELSE IF bt = "TouchID" THEN "TouchID"
    ELSE IF bt = "FaceID" THEN "FaceID"
    ELSE "None"

\* a status call record: status holds what the availability query said, out
\* the native modality indicator where the platform has one
StatusCall == [NoCall EXCEPT !.op = "status"]
StatusCallOf(avail, modality) ==
    [StatusCall EXCEPT !.status = avail, !.out = modality]
AuthCall == [NoCall EXCEPT !.op = "authenticate"]

\* Option<bool>::unwrap_or(false)
UnwrapOrFalse(o) == IF o = None THEN FALSE ELSE o[1]

AllowOptions == {None, Some(FALSE), Some(TRUE)}

\* macOS Biometry::status
MacStatusResult(can, bt) ==
    Ok([is_available  |-> (can = "ok"),
        biometry_type |-> MapBiometryType(bt),
        error         |-> IF can = "ok" THEN None ELSE Some(<<"description", can>>),
        error_code    |-> IF can = "ok" THEN None ELSE Some(la_error_to_string(can))])

MacStatus(t) ==
    /\ variant = "macos" /\ pc[t] = "idle"
    /\ \E can \in CanEvaluateOutcomes, bt \in LABiometryTypes :
         Return(t, StatusCallOf(can, Some(bt)), MacStatusResult(can, bt))
    /\ auth' = [auth EXCEPT ![t] = NoAuth]
    /\ UNCHANGED <<variant, store, helpers>>

\* a reply block that takes a missing error for success
ReplyResultNullAccepts(outcome) ==
    IF outcome = "success" \/ outcome = "null" THEN Ok(None)
    ELSE Rejected(la_error_to_string(outcome))

\* what the reply block of evaluatePolicy sends on the channel
ReplyResult(outcome) ==
    IF outcome = "success" THEN Ok(None)
    ELSE IF outcome # "null" THEN Rejected(la_error_to_string(outcome))
    ELSE Rejected("authenticationFailed")

\* what evaluatePolicy can report: success, an LAError, or a null error
ReplyOutcomes == {"success", "null"} \cup LAErrors

\* macOS authenticate up to and including evaluatePolicy: the availability
\* check, the policy, the channel (tx, and tx_clone moved into the block)
MacAuthBegin(t) ==
    /\ variant = "macos" /\ pc[t] = "idle"
    /\ \E allowOpt \in AllowOptions, can \in CanEvaluateOutcomes :
         LET allow == UnwrapOrFalse(allowOpt)
             a == [NoAuth EXCEPT !.allow = allowOpt, !.avail = can]
         IN  IF can # "ok" /\ ~allow
             THEN /\ auth' = [auth EXCEPT ![t] = a]
                  /\ Return(t, AuthCall, Rejected(la_error_to_string(can)))
             ELSE /\ auth' = [auth EXCEPT ![t] =
                        [a EXCEPT !.policy = IF allow
                                             THEN "DeviceOwnerAuthentication"
                                             ELSE "DeviceOwnerAuthenticationWithBiometrics",
                                  !.invoked = TRUE,
                                  !.block = "pending",
                                  !.senders = 2]]
                  /\ Goto(t, AuthCall, "recv")
    /\ UNCHANGED <<variant, store, helpers>>

\* a reply block that sends the mapped result and then a generic failure
NativeReplyTwice(t) ==
    /\ pc[t] = "recv" /\ auth[t].block = "pending"
    /\ \E outcome \in ReplyOutcomes :
         /\ auth' = [auth EXCEPT ![t] =
                [@ EXCEPT !.outcome = outcome,
                          !.block = "invoked",
                          !.chan = @ \o <<ReplyResult(outcome),
                                          Rejected("authenticationFailed")>>,
                          !.written = @ \o <<ReplyResult(outcome),
                                             Rejected("authenticationFailed")>>,
                          !.senders = @ - 1]]
    /\ UNCHANGED <<variant, store, pc, call, ret, absVault, helpers>>

\* the means by which a policy lets the user be verified
Means == {"biometry", "credential"}
PolicyAdmits(policy, means) ==
    \/ means = "biometry"
    \/ means = "credential"
         /\ policy \in {"DeviceOwnerAuthentication", "UserConsentVerifier"}

\* the subsystem invokes the reply block, which sends once, and releases it
NativeReply(t) ==
    /\ pc[t] = "recv" /\ auth[t].block = "pending"
    /\ \E outcome \in ReplyOutcomes, means \in Means \cup {"none"} :
         /\ (outcome = "success") <=> (means # "none")
         /\ means # "none" => PolicyAdmits(auth[t].policy, means)
         /\ means = "biometry" => auth[t].avail = "ok"
         /\ auth' = [auth EXCEPT ![t] =
                [@ EXCEPT !.outcome = outcome,
                          !.means = means,
                          !.block = "invoked",
                          !.chan = Append(@, ReplyResult(outcome)),
                          !.written = Append(@, ReplyResult(outcome)),
                          !.senders = @ - 1]]
    /\ UNCHANGED <<variant, store, pc, call, ret, absVault, helpers>>

\* the subsystem releases the reply block without ever invoking it
NativeDrop(t) ==
    /\ pc[t] = "recv" /\ auth[t].block = "pending"
    /\ auth' = [auth EXCEPT ![t] = [@ EXCEPT !.block = "dropped", !.senders = @ - 1]]
    /\ UNCHANGED <<variant, store, pc, call, ret, absVault, helpers>>

\* rx.recv() returns: a value is queued, or every Sender is gone
RecvReady(a) == a.chan # << >> \/ a.senders = 0

\* macOS authenticate from rx.recv() to its return; tx and rx are dropped
MacAuthRecv(t) ==
    /\ pc[t] = "recv"
    /\ RecvReady(auth[t])
    /\ Return(t, AuthCall,
              IF auth[t].chan # << >> THEN Head(auth[t].chan)
              ELSE Rejected("authenticationFailed"))
    /\ auth' = [auth EXCEPT ![t] = [@ EXCEPT !.chan = << >>, !.senders = 0]]
    /\ UNCHANGED <<variant, store, helpers>>

(***************************************************************************)
(* Windows: UserConsentVerifier, the dialog-focus helper, the vault stubs. *)
(***************************************************************************)
Availabilities ==
    {"Available", "DeviceNotPresent", "NotConfiguredForUser", "DisabledByPolicy",
     "DeviceBusy", "Other"}

VerificationResults ==
    {"Verified", "DeviceBusy", "DeviceNotPresent", "DisabledByPolicy",
     "NotConfiguredForUser", "Canceled", "RetriesExhausted", "Other"}

WinStatusRecord(isAvailable, biometryType, error, errorCode) ==
    [is_available |-> isAvailable, biometry_type |-> biometryType,
     error |-> error, error_code |-> errorCode]

\* Windows Biometry::status; query is "failed" when CheckAvailabilityAsync or
\* its get() fails
WinStatusResult(query) ==
    IF query = "failed" THEN Rejected("internalError")
    ELSE IF query = "Available"
         THEN Ok(WinStatusRecord(TRUE, "Auto", None, None))
    ELSE IF query = "DeviceNotPresent"
         THEN Ok(WinStatusRecord(FALSE, "None", Some("No biometric device found"),
                                 Some("biometryNotAvailable")))
    ELSE IF query = "NotConfiguredForUser"
         THEN Ok(WinStatusRecord(FALSE, "None",
                                 Some("Biometric authentication not configured"),
                                 Some("biometryNotEnrolled")))
    ELSE IF query = "DisabledByPolicy"
         THEN Ok(WinStatusRecord(FALSE, "None",
                                 Some("Biometric authentication disabled by policy"),
                                 Some("biometryNotAvailable")))
    ELSE IF query = "DeviceBusy"
         THEN Ok(WinStatusRecord(FALSE, "None", Some("Biometric device is busy"),
                                 Some("systemCancel")))
    ELSE Ok(WinStatusRecord(FALSE, "None", Some("Unknown availability status"),
                            Some("biometryNotAvailable")))

WinStatus(t) ==
    /\ variant = "windows" /\ pc[t] = "idle"
    /\ \E query \in Availabilities \cup {"failed"} :
         Return(t, StatusCallOf(query, None), WinStatusResult(query))
    /\ auth' = [auth EXCEPT ![t] = NoAuth]
    /\ UNCHANGED <<variant, store, helpers>>

\* Windows authenticate: the mapping of the verification result; result is
\* "failed" when RequestVerificationAsync or its get() fails
WinAuthResult(result) ==
    IF result = "failed" THEN Rejected("internalError")
    ELSE IF result = "Verified" THEN Ok(None)
    ELSE IF result = "DeviceBusy" THEN Rejected("systemCancel")
    ELSE IF result = "DeviceNotPresent" THEN Rejected("biometryNotAvailable")
    ELSE IF result = "DisabledByPolicy" THEN Rejected("biometryNotAvailable")
    ELSE IF result = "NotConfiguredForUser" THEN Rejected("biometryNotEnrolled")
    ELSE IF result = "Canceled" THEN Rejected("userCancel")
    ELSE IF result = "RetriesExhausted" THEN Rejected("biometryLockout")
    ELSE Rejected("authenticationFailed")

\* nudge_hello_dialog_focus_async(5, 250): the retries and the delay (ms)
\* authenticate passes
Retries == 5
DelayMs == 250

\* the slots no live helper thread holds, and the one a new thread takes
FreeSlots == {i \in 1..MaxHelpers : helpers[i].phase \in {"none", "done"}}
FreeSlot == CHOOSE i \in FreeSlots : \A j \in FreeSlots : i <= j

\* std::thread::spawn in nudge_hello_dialog_focus_async: the new thread
\* starts with the initial sleep
SpawnedHelper(t) ==
    [phase |-> "sleep", tried |-> 0, found |-> FALSE, wait |-> DelayMs,
     owner |-> t, outstanding |-> TRUE]

\* a helper thread that has ended
EndedHelper(h, found) ==
    [phase |-> "done", tried |-> h.tried, found |-> found, wait |-> 0,
     owner |-> 0, outstanding |-> FALSE]

\* Windows authenticate up to async_op.get(): the options are not read;
\* the request is made whatever the device's availability is, and the
\* focus helper is spawned when the request started
WinAuthBegin(t) ==
    /\ variant = "windows" /\ pc[t] = "idle"
    /\ FreeSlots # {}
    /\ \E allowOpt \in AllowOptions, avail \in Availabilities, started \in BOOLEAN :
         LET a == [NoAuth EXCEPT !.allow = allowOpt, !.avail = avail,
                                 !.policy = "UserConsentVerifier",
                                 !.invoked = TRUE]
         IN  IF ~started
             THEN /\ auth' = [auth EXCEPT ![t] = [a EXCEPT !.outcome = "failed"]]
                  /\ helpers' = helpers
                  /\ Return(t, AuthCall, WinAuthResult("failed"))
             ELSE /\ auth' = [auth EXCEPT ![t] = a]
                  /\ helpers' = [helpers EXCEPT ![FreeSlot] = SpawnedHelper(t)]
                  /\ Goto(t, AuthCall, "win_wait")
    /\ UNCHANGED <<variant, store>>

\* an authenticate that joins its helper thread before it returns
WinAuthCompleteJoining(t) ==
    /\ pc[t] = "win_wait"
    /\ \A i \in 1..MaxHelpers :
         helpers[i].owner = t => helpers[i].phase \notin {"sleep", "try"}
    /\ \E result \in VerificationResults \cup {"failed"}, means \in Means \cup {"none"} :
         /\ (result = "Verified") <=> (means # "none")
         /\ means # "none" => PolicyAdmits(auth[t].policy, means)
         /\ result = "Verified" => auth[t].avail = "Available"
         /\ auth' = [auth EXCEPT ![t] = [@ EXCEPT !.outcome = result,
                                                  !.means = means]]
         /\ Return(t, AuthCall, WinAuthResult(result))
    /\ helpers' = helpers
    /\ UNCHANGED <<variant, store>>

\* async_op.get() returns and authenticate maps the result; the dialog of
\* the verifier takes the Hello PIN as well as a biometric
WinAuthComplete(t) ==
    /\ pc[t] = "win_wait"
    /\ \E result \in VerificationResults \cup {"failed"}, means \in Means \cup {"none"} :
         /\ (result = "Verified") <=> (means # "none")
         /\ means # "none" => PolicyAdmits(auth[t].policy, means)
         /\ result = "Verified" => auth[t].avail = "Available"
         /\ auth' = [auth EXCEPT ![t] = [@ EXCEPT !.outcome = result,
                                                  !.means = means]]
         /\ Return(t, AuthCall, WinAuthResult(result))
    /\ helpers' = [i \in 1..MaxHelpers |->
                     IF helpers[i].owner = t
                     THEN [helpers[i] EXCEPT !.outstanding = FALSE]
                     ELSE helpers[i]]
    /\ UNCHANGED <<variant, store>>

\* a loop that goes round once more than it was told
HelperWakeOnceMore(i) ==
    /\ i \in 1..MaxHelpers /\ helpers[i].phase = "sleep"
    /\ helpers' = IF helpers[i].tried <= Retries
                  THEN [helpers EXCEPT ![i].phase = "try", ![i].wait = 0]
                  ELSE [helpers EXCEPT ![i] = EndedHelper(@, FALSE)]
    /\ UNCHANGED <<variant, store, pc, call, ret, absVault, auth>>

\* a helper's sleep ends: the next attempt, or the end of the loop
HelperWake(i) ==
    /\ i \in 1..MaxHelpers /\ helpers[i].phase = "sleep"
    /\ helpers' = IF helpers[i].tried < Retries
                  THEN [helpers EXCEPT ![i].phase = "try", ![i].wait = 0]
                  ELSE [helpers EXCEPT ![i] = EndedHelper(@, FALSE)]
    /\ UNCHANGED <<variant, store, pc, call, ret, absVault, auth>>

\* try_focus_hello_dialog_once: the dialog is found and raised, and the loop
\* breaks, or it is not found, and the thread sleeps again
HelperTry(i) ==
    /\ i \in 1..MaxHelpers /\ helpers[i].phase = "try"
    /\ \E found \in BOOLEAN :
         helpers' = IF found
                    THEN [helpers EXCEPT ![i] =
                            EndedHelper([@ EXCEPT !.tried = @ + 1], TRUE)]
                    ELSE [helpers EXCEPT ![i].phase = "sleep",
                                         ![i].tried = @ + 1,
                                         ![i].wait = DelayMs]
    /\ UNCHANGED <<variant, store, pc, call, ret, absVault, auth>>

VaultOps == {"has_data", "get_data", "set_data", "remove_data"}

\* stubs that hand has_data to a store that holds nothing
WinVaultResultProbing(op) ==
    IF op = "has_data" THEN Ok(FALSE) ELSE Rejected("notSupported")

\* what each Windows vault stub returns
WinVaultResult(op) == Rejected("notSupported")

\* Windows has_data, get_data, set_data, remove_data: the options are not read
WinVault(t) ==
    /\ variant = "windows" /\ pc[t] = "idle"
    /\ \E op \in VaultOps, k \in Keys, v \in Values :
         /\ op # "set_data" => v = << >>
         /\ Return(t, NewCall(op, k, v), WinVaultResult(op))
    /\ auth' = [auth EXCEPT ![t] = NoAuth]
    /\ UNCHANGED <<variant, store, helpers>>

(***************************************************************************)
(* Desktop (not Windows, not macOS keychain): every operation is a stub.   *)
(***************************************************************************)
DesktopCall(t) ==
    /\ variant = "desktop" /\ pc[t] = "idle"
    /\ \E op \in VaultOps \cup {"status", "authenticate"} :
         Return(t, [NoCall EXCEPT !.op = op], IoError)
    /\ auth' = [auth EXCEPT ![t] = NoAuth]
    /\ UNCHANGED <<variant, store, helpers>>

\* the commands are issued one at a time, by the first thread of the pool
Callers == {1}

Next ==
    \E t \in Callers :
        \/ HasDataBegin(t)
        \/ GetDataBegin(t)
        \/ UserRespond(t)
        \/ HasDataEnd(t)
        \/ GetDataEnd(t)
        \/ SetDataAdd(t)
        \/ SetDataUpdate(t)
        \/ RemoveData(t)
        \/ MacStatus(t)
        \/ MacAuthBegin(t)
        \/ NativeReply(t)
        \/ NativeDrop(t)
        \/ MacAuthRecv(t)
        \/ WinStatus(t)
        \/ WinAuthBegin(t)
        \/ WinAuthComplete(t)
        \/ WinVault(t)
        \/ DesktopCall(t)
        \/ \E i \in 1..MaxHelpers : HelperWake(i) \/ HelperTry(i)

Spec == Init /\ [][Next]_vars

\* the async commands run on the runtime's thread pool: set_data and
\* remove_data calls of several threads against the one keychain (macOS)
InitVault == Init /\ variant = "macos"

\* the VaultKey the concurrent calls contend for
ContendedKey == <<"d1", "n1">>

NextVault ==
    \E t \in Threads :
        \/ SetDataAdd(t) /\ call'[t].key = ContendedKey
        \/ SetDataUpdate(t)
        \/ RemoveData(t) /\ call'[t].key = ContendedKey

SpecVault == InitVault /\ [][NextVault]_vars

\* the Windows authenticate calls and their helper threads; a helper thread
\* is an OS thread: its sleep ends, and it runs
InitHello == Init /\ variant = "windows"

NextHello ==
    \/ \E t \in Callers : WinAuthBegin(t) \/ WinAuthComplete(t)
    \/ \E i \in 1..MaxHelpers : HelperWake(i) \/ HelperTry(i)

SpecHello ==
    /\ InitHello /\ [][NextHello]_vars
    /\ \A i \in 1..MaxHelpers : WF_vars(HelperWake(i)) /\ WF_vars(HelperTry(i))

(***************************************************************************)
(* The vault contract (macOS).                                             *)
(***************************************************************************)
\* thread t's last call was op and has returned
Returned(t, op) == pc[t] = "idle" /\ call[t].op = op /\ ret[t] # NoRet

\* the call could build its native objects, and the store answered from its
\* contents
Answered(c) == c.built /\ c.status # "none" /\ c.status \notin HardFailures

ItemsOf(k) == {it \in store : KeyOf(it) = k}

DataResponse(k, v) == [domain |-> k[1], name |-> k[2], data |-> v]

\* C1: a get_data(k) that follows a successful set_data(k, v), with no
\* set_data or remove_data on k succeeding in between, and in which the store
\* releases the payload (the user passed the gate), returns the DataResponse
\* {domain, name of k, data = v}: v comes back unchanged.
C1_RoundTrip ==
    \A t \in Threads :
        ( /\ Returned(t, "get_data")
          /\ call[t].pre.st = "present"
          /\ call[t].status = "errSecSuccess" /\ call[t].out # None )
        => ret[t] = Ok(DataResponse(call[t].key, call[t].pre.v))

\* C1 happens: a non-ASCII secret came back after the user passed the prompt
C1_Witness ==
    \E t \in Threads :
        /\ Returned(t, "get_data") /\ call[t].prompted
        /\ call[t].pre = Present(<<8364>>)
        /\ ret[t] = Ok(DataResponse(call[t].key, <<8364>>))

\* C2: a set_data(k, v2) on a key that a set_data(k, v1) filled succeeds
\* whenever the store answers from its contents (the duplicate-item result of
\* the insert is turned into an update); afterwards the store holds exactly
\* one entry for k, that entry is what get_data decodes to v2, and a get_data(k)
\* that then passes the gate returns v2.
C2_Upsert ==
    \A t \in Threads :
        /\ ( /\ Returned(t, "set_data")
             /\ call[t].pre.st = "present"
             /\ Answered(call[t]) )
           => /\ ret[t] = Ok(None)
              /\ Cardinality(ItemsOf(call[t].key)) = 1
              /\ \A it \in ItemsOf(call[t].key) :
                   GetDataResult(call[t].key, "errSecSuccess", Some(it.data))
                     = Ok(DataResponse(call[t].key, call[t].data))
              /\ absVault[call[t].key] = Present(call[t].data)
        /\ ( /\ Returned(t, "get_data")
             /\ call[t].status = "errSecSuccess" /\ call[t].out # None )
           => /\ call[t].pre.st = "present"
              /\ ret[t].val.data = call[t].pre.v

\* C2 happens: a set_data replaced another value and succeeded
C2_Witness ==
    \E t \in Threads :
        /\ Returned(t, "set_data") /\ ret[t] = Ok(None)
        /\ call[t].pre = Present(<<65>>) /\ call[t].data = <<8364>>
        /\ call[t].status = "errSecSuccess"

\* C3: has_data(k), whenever the store answers from its contents, returns
\* false for a key the vault does not hold (never set, or removed again by
\* remove_data) and true for a key a successful set_data filled, in every
\* round of the set_data / remove_data cycle.
C3_Cycle ==
    \A t \in Threads :
        ( Returned(t, "has_data") /\ Answered(call[t]) )
        => /\ call[t].pre.st = "absent" => ret[t] = Ok(FALSE)
           /\ call[t].pre.st = "present" => ret[t] = Ok(TRUE)

\* C3 happens: has_data said false on a key that was set and removed again
C3_Witness ==
    \E t \in Threads :
        /\ Returned(t, "has_data") /\ ret[t] = Ok(FALSE)
        /\ call[t].pre = Removed

\* C4, in a state: a remove_data(k) whose native delete ran returns an error
\* exactly when the native status is neither success nor not-found; on a key
\* the vault does not hold, with the store answering from its contents, the
\* status is not-found, the call succeeds, and k is still absent (so the
\* same holds for the next remove_data).
C4_State ==
    \A t \in Threads :
        ( Returned(t, "remove_data") /\ call[t].built )
        => /\ IsErr(ret[t]) <=>
                call[t].status \notin {"errSecSuccess", "errSecItemNotFound"}
           /\ ( call[t].pre.st = "absent" /\ Answered(call[t]) )
              => /\ call[t].status = "errSecItemNotFound"
                 /\ ret[t] = Ok(None)
                 /\ ItemsOf(call[t].key) = {}
                 /\ absVault[call[t].key].st = "absent"

\* C4, in a step: a remove_data on a key the vault does not hold leaves the
\* store unchanged.
C4_Step ==
    \A t \in Threads :
        ( /\ pc[t] = "idle" /\ Returned(t, "remove_data")'
          /\ call'[t].pre.st = "absent" )
        => store' = store

\* C4: delete idempotence.
C4_Idempotent == [](C4_State) /\ [][C4_Step]_vars

\* C4 happens: a second remove_data in a row on the same, absent key succeeded
C4_Witness ==
    \E t \in Threads :
        /\ Returned(t, "remove_data") /\ ret[t] = Ok(None)
        /\ call[t].pre = Removed
        /\ call[t].status = "errSecItemNotFound"

\* C5: no has_data call ever puts up the authentication UI or waits for the
\* user, whatever the access control of the entry it finds.
C5_HasDataNeverPrompts ==
    \A t \in Threads :
        call[t].op = "has_data" => pc[t] # "prompt" /\ ~call[t].prompted

\* C5 happens: has_data found an entry bound to user presence and answered
C5_Witness ==
    \E t \in Threads :
        /\ Returned(t, "has_data") /\ ret[t] = Ok(TRUE)
        /\ call[t].status = "errSecInteractionNotAllowed"
        /\ \E it \in ItemsOf(call[t].key) : it.ac = "UserPresence"

(***************************************************************************)
(* The authentication and status contract.                                 *)
(***************************************************************************)
\* the portable error codes
Taxonomy ==
    {"appCancel", "authenticationFailed", "invalidContext", "notInteractive",
     "passcodeNotSet", "systemCancel", "userCancel", "userFallback",
     "biometryLockout", "biometryNotAvailable", "biometryNotEnrolled",
     "itemNotFound", "authenticationRequired", "keychainError", "dataError",
     "internalError", "notSupported", "unknown"}

\* the device cannot evaluate the biometric policy, and the caller did not
\* allow the device credential
BiometryOnlyUnavailable(a) ==
    /\ ~UnwrapOrFalse(a.allow)
    /\ a.avail \notin {"n/a", "ok", "Available"}

\* C6: on every variant, an authenticate call without allow_device_credential
\* on a device that cannot evaluate the biometric policy never invokes the
\* native verification primitive, and fails with the mapped availability error.
C6_PreCheck ==
    \A t \in Threads :
        ( call[t].op = "authenticate" /\ BiometryOnlyUnavailable(auth[t]) )
        => /\ ~auth[t].invoked
           /\ pc[t] = "idle" =>
                /\ ret[t].kind = "InvokeRejected"
                /\ ret[t].code \in {Some("biometryNotAvailable"),
                                    Some("biometryNotEnrolled"),
                                    Some("biometryLockout"),
                                    Some("passcodeNotSet"),
                                    Some("systemCancel"),
                                    Some("unknown")}

\* C7: an authenticate call blocked in its receive, whose reply block the
\* subsystem has released without invoking it, can return, and what it
\* returns is the error authenticationFailed.
C7_NoHang ==
    \A t \in Threads :
        /\ ( pc[t] = "recv" /\ auth[t].block = "dropped" )
           => ENABLED MacAuthRecv(t)
        /\ ( Returned(t, "authenticate") /\ auth[t].block = "dropped" )
           => ret[t] = Rejected("authenticationFailed")

\* C8: once the user has cancelled an authenticate call (macOS reply with
\* LAError UserCancel, Windows result Canceled), the call is not blocked: it
\* can return, and what it returns is the error userCancel.
C8_UserCancel ==
    \A t \in Threads :
        ( call[t].op = "authenticate"
          /\ auth[t].outcome \in {"UserCancel", "Canceled"} )
        => \/ pc[t] = "recv" /\ ENABLED MacAuthRecv(t)
           \/ Returned(t, "authenticate") /\ ret[t] = Rejected("userCancel")

\* C8 happens: a macOS authenticate call returned after the user cancelled
C8_Witness ==
    \E t \in Threads :
        /\ variant = "macos" /\ Returned(t, "authenticate")
        /\ auth[t].outcome = "UserCancel" /\ auth[t].block = "invoked"
        /\ ret[t] = Rejected("userCancel")

\* C9: on every variant status() returns a Status value, never an error; when
\* biometry is not available the value carries both error and error_code.
C9_StatusNeverFails ==
    \A t \in Threads :
        Returned(t, "status")
        => /\ ret[t].kind = "Ok"
           /\ ~ret[t].val.is_available
                => ret[t].val.error # None /\ ret[t].val.error_code # None

\* C10: on every variant, an error returned by authenticate, has_data,
\* get_data, set_data or remove_data is an ErrorResponse whose code is a
\* member of the taxonomy.
C10_ClosedTaxonomy ==
    \A t \in Threads :
        ( /\ pc[t] = "idle"
          /\ call[t].op \in VaultOps \cup {"authenticate"}
          /\ IsErr(ret[t]) )
        => /\ ret[t].kind = "InvokeRejected"
           /\ ret[t].code # None
           /\ ret[t].code[1] \in Taxonomy

\* C11, in a state: on the Windows variant every returned has_data, get_data,
\* set_data or remove_data call, whatever its arguments, returned the error
\* notSupported, made no native call, and the store holds nothing.
C11_State ==
    \A t \in Threads :
        ( /\ variant = "windows"
          /\ \E op \in VaultOps : Returned(t, op) )
        => /\ ret[t] = Rejected("notSupported")
           /\ call[t].status = "none" /\ ~call[t].prompted
           /\ store = {}
           /\ absVault[call[t].key] = Absent

\* C11, in a step: a Windows vault call (a step in which the caller's call
\* record or result changes to that of a vault call) changes neither the store, nor what
\* the vault holds, nor the helper threads, nor any authenticate call's record
\* but the caller's own (which is cleared).
C11_Step ==
    \A t \in Threads :
        ( /\ variant = "windows" /\ pc[t] = "idle"
          /\ pc'[t] = "idle" /\ call'[t].op \in VaultOps
          /\ <<call[t], ret[t]>> # <<call'[t], ret'[t]>> )
        => /\ store' = store /\ absVault' = absVault /\ helpers' = helpers
           /\ \A u \in Threads \ {t} : auth'[u] = auth[u] /\ call'[u] = call[u]

\* C11: the Windows vault operations are notSupported, without side effect.
C11_WindowsVault == [](C11_State) /\ [][C11_Step]_vars

\* C11 happens: a Windows set_data with a secret returned notSupported
C11_Witness ==
    \E t \in Threads :
        /\ variant = "windows" /\ Returned(t, "set_data")
        /\ call[t].data = <<8364>> /\ ret[t] = Rejected("notSupported")

(***************************************************************************)
(* The status record.                                                      *)
(***************************************************************************)
\* the native modality indicator names a modality the component knows
Determinable(modality) == modality \in {Some("TouchID"), Some("FaceID")}

\* C12: a status() on a device whose biometric policy is evaluable and whose
\* native modality is Face returns exactly {is_available: true, biometry_type:
\* FaceID, error: null, error_code: null}; any status with is_available = true
\* has error = null and error_code = null; where the native modality indicator
\* names no known modality the biometry_type is None, and where the platform
\* has no modality indicator (Windows) it is None when biometry is
\* unavailable and the unspecified modality when it is available.
C12_StatusRecord ==
    \A t \in Threads :
        ( Returned(t, "status") /\ ret[t].kind = "Ok" )
        => /\ ( call[t].status = "ok" /\ call[t].out = Some("FaceID") )
              => ret[t].val = [is_available |-> TRUE, biometry_type |-> "FaceID",
                               error |-> None, error_code |-> None]
           /\ ret[t].val.is_available
              => ret[t].val.error = None /\ ret[t].val.error_code = None
           /\ ( call[t].out # None /\ ~Determinable(call[t].out) )
              => ret[t].val.biometry_type = "None"
           /\ call[t].out = None
              => ret[t].val.biometry_type
                   = IF ret[t].val.is_available THEN "Auto" ELSE "None"

\* C12 happens: status on a device with Face biometry enrolled
C12_Witness ==
    \E t \in Threads :
        /\ Returned(t, "status")
        /\ call[t].status = "ok" /\ call[t].out = Some("FaceID")
        /\ ret[t].kind = "Ok" /\ ret[t].val.is_available
        /\ ret[t].val.biometry_type = "FaceID"

(***************************************************************************)
(* The result rendezvous of authenticate (macOS).                          *)
(***************************************************************************)
\* C13, in a state: in every macOS authenticate call at most one value is
\* ever sent on the result channel, what is queued was sent by the reply
\* block, and a call that went through the receive returned exactly the one
\* value the reply block sent.
C13_State ==
    \A t \in Threads :
        ( variant = "macos" /\ call[t].op = "authenticate" )
        => /\ Len(auth[t].written) <= 1
           /\ auth[t].chan \in {<< >>, auth[t].written}
           /\ auth[t].written # << >>
              => /\ auth[t].block = "invoked"
                 /\ auth[t].written = <<ReplyResult(auth[t].outcome)>>
           /\ ( pc[t] = "idle" /\ auth[t].invoked )
              => /\ Len(auth[t].written) = 1
                 /\ ret[t] = auth[t].written[1]

\* C13, in a step: a value enters a call's channel only by the reply block of
\* that call, while the caller is blocked in its receive, and leaves it only
\* by the caller's own return from the receive.
C13_Step ==
    \A t \in Threads :
        /\ Len(auth'[t].chan) > Len(auth[t].chan)
           => /\ pc[t] = "recv" /\ pc'[t] = "recv"
              /\ auth[t].block = "pending" /\ auth'[t].block = "invoked"
        /\ Len(auth'[t].chan) < Len(auth[t].chan)
           => /\ pc[t] = "recv" /\ pc'[t] = "idle"
              /\ ret'[t] = Head(auth[t].chan)

\* C13: the result channel of authenticate is a one-shot rendezvous.
C13_OneShot == [](C13_State) /\ [][C13_Step]_vars

\* C13 happens: a call returned the failure its reply block sent
C13_Witness ==
    \E t \in Threads :
        /\ variant = "macos" /\ Returned(t, "authenticate")
        /\ auth[t].written = <<Rejected("biometryLockout")>>
        /\ auth[t].chan = << >>
        /\ ret[t] = Rejected("biometryLockout")

(***************************************************************************)
(* Concurrent vault calls (macOS).                                         *)
(***************************************************************************)
\* C14: vault calls are atomic against the store, so each call's result is
\* that of some serial order of the calls. In every serial order a set_data
\* to which the store reports no failure of its own succeeds (the insert on
\* an absent key, the update on a present one); so under any interleaving of
\* set_data and remove_data calls every such set_data returns Ok.
C14_Atomic ==
    \A t \in Threads :
        ( Returned(t, "set_data") /\ Answered(call[t]) )
        => ret[t] = Ok(None)

(***************************************************************************)
(* The access control of the vault entries (macOS).                        *)
(***************************************************************************)
\* the entry a set_data(k, v) writes: payload, access control, accessibility
EntryOf(k, v) ==
    [svc    |-> k[1],
     acct   |-> k[2],
     data   |-> AsBytes(v),
     ac     |-> "UserPresence",
     access |-> "kSecAttrAccessibleWhenUnlockedThisDeviceOnly"]

\* C15, in a state: every entry of the store is, whole, what one set_data
\* call wrote: the payload of a secret together with the user-presence access
\* control and the when-unlocked-this-device-only accessibility, one entry per
\* key; and no operation but get_data asks the store for the payload or
\* returns secret bytes.
C15_State ==
    /\ \A it \in store : \E v \in Values : it = EntryOf(KeyOf(it), v)
    /\ \A k \in Keys : Cardinality(ItemsOf(k)) <= 1
    /\ \A t \in Threads :
         call[t].op \in VaultOps \ {"get_data"}
         => /\ call[t].out = None
            /\ IF call[t].op = "has_data" /\ ret[t].kind = "Ok"
               THEN ret[t].val \in BOOLEAN
               ELSE ret[t].val = None

\* C15, in a step: a set_data that returns from the duplicate path either
\* succeeded, and the entry of its key now carries the call's payload, access
\* control and accessibility, all three, or failed (keychainError for a
\* native status, internalError when the update dictionaries could not be
\* built) and left the store as it was.
C15_Step ==
    \A t \in Threads :
        ( pc[t] = "set_update" /\ pc'[t] = "idle" )
        => \/ /\ ret'[t] = Ok(None)
              /\ {it \in store' : KeyOf(it) = call[t].key}
                   = {EntryOf(call[t].key, call[t].data)}
           \/ /\ ret'[t] \in {Rejected("keychainError"), Rejected("internalError")}
              /\ ret'[t] = Rejected("internalError") <=> ~call'[t].built
              /\ store' = store

\* C15: the access-control invariant of the vault.
C15_AccessControl == [](C15_State) /\ [][C15_Step]_vars

\* C15 happens: an update replaced an entry, and the new entry is gated
C15_Witness ==
    \E t \in Threads :
        /\ Returned(t, "set_data") /\ ret[t] = Ok(None)
        /\ call[t].pre = Present(<<65>>)
        /\ store = {EntryOf(call[t].key, <<8364>>)}

(***************************************************************************)
(* The outcome mappings of get_data and has_data (macOS).                  *)
(***************************************************************************)
\* C16, in a state: what a macOS get_data whose lookup ran returned is determined
\* by the native status alone: success with a payload gives the decoded text
\* (with the key), success with a null payload dataError, not-found
\* itemNotFound, user cancellation userCancel, interaction-not-allowed
\* authenticationRequired, and any other status keychainError.
C16_State ==
    \A t \in Threads :
        ( variant = "macos" /\ Returned(t, "get_data") /\ call[t].built )
        => LET st == call[t].status
               rc == ret[t]
           IN  /\ st # "none" /\ rc.kind \in {"Ok", "InvokeRejected"}
               /\ (st = "errSecSuccess" /\ call[t].out # None)
                  <=> rc.kind = "Ok"
               /\ rc.kind = "Ok"
                  => rc.val = DataResponse(call[t].key,
                                           FromUtf8Lossy(call[t].out[1]))
               /\ (st = "errSecSuccess" /\ call[t].out = None)
                  <=> rc.code = Some("dataError")
               /\ st = "errSecItemNotFound" <=> rc.code = Some("itemNotFound")
               /\ st = "errSecUserCanceled" <=> rc.code = Some("userCancel")
               /\ st = "errSecInteractionNotAllowed"
                  <=> rc.code = Some("authenticationRequired")
               /\ st \notin {"errSecSuccess", "errSecItemNotFound",
                             "errSecUserCanceled", "errSecInteractionNotAllowed"}
                  <=> rc.code = Some("keychainError")

\* C16, in a step: no step of a get_data call changes the store.
C16_Step ==
    \A t \in Threads :
        ( /\ call'[t].op = "get_data"
          /\ <<pc[t], call[t], ret[t]>> # <<pc'[t], call'[t], ret'[t]>> )
        => store' = store

\* C16: the outcome mapping of get_data.
C16_GetDataMapping == [](C16_State) /\ [][C16_Step]_vars

\* C16 happens: the store reported success and handed back no payload
C16_Witness ==
    \E t \in Threads :
        /\ Returned(t, "get_data") /\ call[t].prompted
        /\ call[t].status = "errSecSuccess" /\ call[t].out = None
        /\ ret[t] = Rejected("dataError")

\* C17: what a macOS has_data whose lookup ran returned is determined by the
\* native status alone: found gives true, interaction-not-allowed (found, but
\* the entry needs the user) gives true, not-found gives false, any other
\* status the error keychainError; and the call never holds the payload.
C17_HasDataMapping ==
    \A t \in Threads :
        ( variant = "macos" /\ Returned(t, "has_data") /\ call[t].built )
        => LET st == call[t].status
           IN  /\ st # "none" /\ call[t].out = None
               /\ st \in {"errSecSuccess", "errSecInteractionNotAllowed"}
                  <=> ret[t] = Ok(TRUE)
               /\ st = "errSecItemNotFound" <=> ret[t] = Ok(FALSE)
               /\ st \notin {"errSecSuccess", "errSecInteractionNotAllowed",
                             "errSecItemNotFound"}
                  <=> ret[t] = Rejected("keychainError")

\* C17 happens: the store failed outright and has_data reported the failure
C17_Witness ==
    \E t \in Threads :
        /\ Returned(t, "has_data") /\ call[t].status = "errSecAuthFailed"
        /\ ret[t] = Rejected("keychainError")
        /\ ItemsOf(call[t].key) # {}

(***************************************************************************)
(* The policy of authenticate.                                             *)
(***************************************************************************)
\* C18: on every variant, the policy an authenticate call has the native
\* primitive evaluate admits the device credential exactly when
\* allow_device_credential is true; so a call without it that succeeded
\* verified the user by biometry.
C18_Policy ==
    \A t \in Threads :
        ( call[t].op = "authenticate" /\ auth[t].invoked )
        => /\ PolicyAdmits(auth[t].policy, "credential")
                <=> UnwrapOrFalse(auth[t].allow)
           /\ ( Returned(t, "authenticate") /\ ret[t] = Ok(None)
                /\ ~UnwrapOrFalse(auth[t].allow) )
              => auth[t].means = "biometry"

(***************************************************************************)
(* The dialog-focus helper (Windows).                                      *)
(***************************************************************************)
\* C19: a helper thread is at a foreground-raise attempt only while the
\* authentication request of the call that spawned it is outstanding.
C19_HelperWhileOutstanding ==
    \A i \in 1..MaxHelpers :
        helpers[i].phase = "try" => helpers[i].outstanding

\* C20, in a state: a helper thread has made at most Retries attempts, is at
\* an attempt only with fewer made, goes on only while no attempt has found
\* the dialog, gives up only after Retries attempts, and sleeps DelayMs
\* whenever it sleeps.
C20_State ==
    \A i \in 1..MaxHelpers :
        LET h == helpers[i]
        IN  /\ h.tried <= Retries
            /\ h.phase = "try" => h.tried < Retries
            /\ h.phase \in {"sleep", "try"} => ~h.found
            /\ ( h.phase = "done" /\ ~h.found ) => h.tried = Retries
            /\ h.phase = "sleep" <=> h.wait = DelayMs

\* C20, in a step: a helper thread starts with a sleep, comes to an attempt
\* only from a sleep, and leaves an attempt for a sleep (dialog not found) or
\* for its end (dialog found), one attempt more made.
C20_Step ==
    \A i \in 1..MaxHelpers :
        LET h == helpers[i]
            g == helpers'[i]
        IN  /\ ( h.phase \in {"none", "done"} /\ g # h )
               => g.phase = "sleep" /\ g.tried = 0
            /\ ( g.phase = "try" /\ h.phase # "try" ) => h.phase = "sleep"
            /\ ( h.phase = "try" /\ g.phase # "try" )
               => /\ g.tried = h.tried + 1
                  /\ \/ g.phase = "sleep" /\ ~g.found
                     \/ g.phase = "done" /\ g.found

\* C20: the helper thread is bounded, and it always ends, whether or not the
\* dialog ever appears.
C20_Bounded ==
    /\ [](C20_State)
    /\ [][C20_Step]_vars
    /\ \A i \in 1..MaxHelpers :
         (helpers[i].phase \in {"sleep", "try"}) ~> (helpers[i].phase = "done")

\* C20 happens: a helper thread ended without ever finding the dialog
C20_Witness ==
    \E i \in 1..MaxHelpers :
        /\ helpers[i].phase = "done" /\ ~helpers[i].found
        /\ helpers[i].tried = Retries

\* a helper thread is running: it sleeps or is at an attempt
Running(h) == h.phase \in {"sleep", "try"}

\* C21, in a state: a Windows authenticate call waiting for its verification
\* can return whatever its helper thread is doing, and what a call returned is
\* the mapping of the native verification outcome alone; so two runs with the
\* same outcome return the same value, whatever the helper did.
C21_State ==
    \A t \in Threads :
        /\ pc[t] = "win_wait" => ENABLED WinAuthComplete(t)
        /\ ( variant = "windows" /\ Returned(t, "authenticate") )
           => ret[t] = WinAuthResult(auth[t].outcome)

\* C21, in a step: a step of a helper thread (its sleep ends, or it makes an
\* attempt) changes no call's place, record, result or channel.
C21_Step ==
    ( \E i \in 1..MaxHelpers :
        Running(helpers[i]) /\ helpers'[i].phase # helpers[i].phase )
    => /\ pc' = pc /\ call' = call /\ ret' = ret /\ auth' = auth
       /\ store' = store /\ absVault' = absVault

\* C21: the helper thread does not interfere with authenticate.
C21_NonInterference == [](C21_State) /\ [][C21_Step]_vars

\* C21 happens: a call returned its result while its helper thread, which
\* has not found the dialog, is still in its first sleep
C21_Witness ==
    \E t \in Threads, i \in 1..MaxHelpers :
        /\ variant = "windows" /\ Returned(t, "authenticate")
        /\ auth[t].outcome = "Verified" /\ ret[t] = Ok(None)
        /\ helpers[i].phase = "sleep" /\ helpers[i].tried = 0
        /\ helpers[i].owner = t /\ ~helpers[i].outstanding

(***************************************************************************)
(* No false accept.                                                        *)
(***************************************************************************)
\* the native primitive of the variant reported that the user was verified
ReportedSuccess(a) ==
    /\ a.invoked
    /\ \/ variant = "macos" /\ a.outcome = "success" /\ a.block = "invoked"
       \/ variant = "windows" /\ a.outcome = "Verified"

\* C22: on every variant an authenticate call that returned success had its
\* native verification primitive invoked, and the primitive reported success;
\* a call that returned after anything else (another native result, a null
\* error, a request that did not start, a channel without a value, or no
\* native call at all) returned an error.
C22_NoFalseAccept ==
    \A t \in Threads :
        Returned(t, "authenticate")
        => /\ ret[t].kind = "Ok" => ReportedSuccess(auth[t])
           /\ ~ReportedSuccess(auth[t]) => IsErr(ret[t])

\* C22 happens: the reply block was invoked with neither success nor an
\* error, and the call returned a failure
C22_Witness ==
    \E t \in Threads :
        /\ variant = "macos" /\ Returned(t, "authenticate")
        /\ auth[t].outcome = "null" /\ auth[t].block = "invoked"
        /\ ret[t] = Rejected("authenticationFailed")

=============================================================================
